---- MODULE Spec2Model ----
(***************************************************************************)
(* A model of the prompt-manager tree store (src-tauri/src/store.rs,       *)
(* models.rs, main.rs): the forest of TreeItem behind one Mutex, the CRUD  *)
(* operations with their lock / save steps, and the line-indexed search.   *)
(*                                                                         *)
(* Strings are sequences of Unicode scalar values (Rust `char`); their     *)
(* UTF-8 bytes are computed by Utf8 where the code works on byte offsets.  *)
(* Option<T> is a sequence of length 0 (None) or 1 (Some).                 *)
(***************************************************************************)
EXTENDS Integers, Sequences, FiniteSets, TLC

VARIABLES
    data,      \* Store.data: the forest, a sequence of root TreeItems
    lock,      \* the Mutex around data: 0 when free, Poisoned after a panic of
               \* its holder, else the holder
    disk,      \* the contents of store.json: <<>> absent, else <<document>>
    now,       \* chrono::Utc::now().timestamp_millis()
    nextId,    \* stands for uuid::Uuid::new_v4(): the next id never used
    pc,        \* per caller: where its current call stands
    call,      \* per caller: the operation called and its arguments (id: the id or
               \* parent_id given, item: the item or updates, to: new_parent_id)
    local,     \* per caller: the locals kept across steps (item, updated_node, node,
               \* content), and the node as update_item or delete_item found
               \* it (history)
    res,       \* per caller: what the last finished call returned
    ncalls,    \* number of calls started so far
    log,       \* history: the mutations in the order they acquired the lock, each
               \* with whether its persistence write failed
    returned,  \* history: ids returned by a successful add_item
    loaded     \* history: the forest Store::new loaded

vars == <<data, lock, disk, now, nextId, pc, call, local, res, ncalls, log, returned, loaded>>

----------------------------------------------------------------------------
(* Bounds of the model *)

MaxCalls == 2      \* calls started in one behaviour
MaxTime  == 1      \* the clock stops advancing here
MaxLen   == 3      \* chars in the content searched

Procs == {1, 2}    \* concurrent callers (tauri command threads)

----------------------------------------------------------------------------
(* Option<T> *)

None == <<>>
Some(x) == <<x>>
IsSome(o) == o # <<>>
Unwrap(o) == o[1]
\* Option::or
OptOr(a, b) == IF IsSome(a) THEN a ELSE b

----------------------------------------------------------------------------
(* models.rs *)

ItemType == {"Provider", "Model", "Version", "Prompt", "Settings"}

ItemMetadata(description, tags, last_modified) ==
    [description |-> description, tags |-> tags, last_modified |-> last_modified]

TreeItem(id, name, item_type, children, parent_id, content, versions, metadata) ==
    [id |-> id, name |-> name, item_type |-> item_type, children |-> children,
     parent_id |-> parent_id, content |-> content, versions |-> versions,
     metadata |-> metadata]

PromptVersion(id, timestamp, content, label) ==
    [id |-> id, timestamp |-> timestamp, content |-> content, label |-> label]

----------------------------------------------------------------------------
(* Measures on forests (used by the properties and the guards) *)

RECURSIVE CountNodes(_)
CountNodes(nodes) ==
    IF nodes = <<>> THEN 0
    ELSE 1 + CountNodes(Head(nodes).children) + CountNodes(Tail(nodes))

\* the ids of a forest in document (pre-order, depth-first) order
RECURSIVE IdList(_)
IdList(nodes) ==
    IF nodes = <<>> THEN <<>>
    ELSE <<Head(nodes).id>> \o IdList(Head(nodes).children) \o IdList(Tail(nodes))

Range(s) == {s[i] : i \in 1..Len(s)}
IdSet(nodes) == Range(IdList(nodes))

----------------------------------------------------------------------------
(* store.rs: traversal *)

\* find_node_recursive: the first node with this id in pre-order, as an Option
RECURSIVE find_node_recursive(_, _)
find_node_recursive(nodes, id) ==
    IF nodes = <<>> THEN None
    ELSE LET node == Head(nodes) IN
         IF node.id = id THEN Some(node)
         ELSE LET found == find_node_recursive(node.children, id) IN
              IF IsSome(found) THEN found
              ELSE find_node_recursive(Tail(nodes), id)

\* find_node_mut_recursive returns a mutable reference: here the path of child
\* indices leading to the first node with this id (<<>> when there is none)
RECURSIVE FindPathFrom(_, _, _)
FindPathFrom(nodes, id, i) ==
    IF i > Len(nodes) THEN <<>>
    ELSE IF nodes[i].id = id THEN <<i>>
    ELSE LET found == FindPathFrom(nodes[i].children, id, 1) IN
         IF found # <<>> THEN <<i>> \o found
         ELSE FindPathFrom(nodes, id, i + 1)

find_node_mut_recursive(nodes, id) == FindPathFrom(nodes, id, 1)

\* dereference of such a reference
RECURSIVE NodeAt(_, _)
NodeAt(nodes, path) ==
    IF Len(path) = 1 THEN nodes[path[1]]
    ELSE NodeAt(nodes[path[1]].children, Tail(path))

\* assignment through such a reference
RECURSIVE SetAt(_, _, _)
SetAt(nodes, path, node) ==
    IF Len(path) = 1 THEN [nodes EXCEPT ![path[1]] = node]
    ELSE [nodes EXCEPT ![path[1]].children = SetAt(@, Tail(path), node)]

\* delete_node_recursive
RECURSIVE delete_node_recursive(_, _)
delete_node_recursive(nodes, id) ==
    IF \E i \in 1..Len(nodes) : nodes[i].id = id
    THEN LET pos == CHOOSE i \in 1..Len(nodes) :
                        /\ nodes[i].id = id
                        /\ \A j \in 1..(i - 1) : nodes[j].id # id
         IN SubSeq(nodes, 1, pos - 1) \o SubSeq(nodes, pos + 1, Len(nodes))
    ELSE [i \in 1..Len(nodes) |->
            [nodes[i] EXCEPT !.children = delete_node_recursive(@, id)]]

----------------------------------------------------------------------------
(* store.rs: what serde_json::to_string_pretty writes for the forest.       *)
(* A JSON value is a tagged record; struct fields are renamed to camelCase, *)
(* item_type to "type", the ItemType variants to camelCase strings.         *)

JNull == [t |-> "null"]
JStr(s) == [t |-> "str", v |-> s]
JNum(n) == [t |-> "num", v |-> n]
JArr(a) == [t |-> "arr", v |-> a]
JObj(o) == [t |-> "obj", v |-> o]

\* Option<T>: null or the value's own encoding
JOptStr(o) == IF IsSome(o) THEN JStr(Unwrap(o)) ELSE JNull
JOptNum(o) == IF IsSome(o) THEN JNum(Unwrap(o)) ELSE JNull

\* (mutant) the variant names are written as they are declared
ItemTypeJson_variantName(item_type) == item_type

ItemTypeJson(item_type) ==
    CASE item_type = "Provider" -> "provider"
      [] item_type = "Model"    -> "model"
      [] item_type = "Version"  -> "version"
      [] item_type = "Prompt"   -> "prompt"
      [] item_type = "Settings" -> "settings"

PromptVersionJson(v) ==
    JObj([id |-> JStr(v.id), timestamp |-> JNum(v.timestamp),
          content |-> JStr(v.content), label |-> JOptStr(v.label)])

ItemMetadataJson(m) ==
    JObj([description |-> JOptStr(m.description),
          tags |-> IF IsSome(m.tags)
                   THEN JArr([i \in 1..Len(Unwrap(m.tags)) |-> JStr(Unwrap(m.tags)[i])])
                   ELSE JNull,
          lastModified |-> JOptNum(m.last_modified)])

RECURSIVE ForestJson(_)
TreeItemJson(node) ==
    JObj([id |-> JStr(node.id),
          name |-> JStr(node.name),
          type |-> JStr(ItemTypeJson(node.item_type)),
          children |-> ForestJson(node.children),
          parentId |-> IF IsSome(node.parent_id) THEN JStr(Unwrap(node.parent_id)) ELSE JNull,
          content |-> JOptStr(node.content),
          versions |-> IF IsSome(node.versions)
                       THEN JArr([i \in 1..Len(Unwrap(node.versions)) |->
                                    PromptVersionJson(Unwrap(node.versions)[i])])
                       ELSE JNull,
          metadata |-> ItemMetadataJson(node.metadata)])

ForestJson(nodes) == JArr([i \in 1..Len(nodes) |-> TreeItemJson(nodes[i])])

----------------------------------------------------------------------------
(* store.rs: what serde_json::from_str::<Vec<TreeItem>> reads back. Each    *)
(* reader yields an Option: None when the value does not fit the type.      *)
(* A key the document lacks reads as JAbsent: an Option field is then None, *)
(* a #[serde(default)] field its default, any other field an error.         *)

JAbsent == [t |-> "absent"]
Field(o, key) == IF key \in DOMAIN o THEN o[key] ELSE JAbsent

StrFromJson(j) == IF j.t = "str" THEN Some(j.v) ELSE None
NumFromJson(j) == IF j.t = "num" THEN Some(j.v) ELSE None

\* Option<String>, Option<i64>
OptStrFromJson(j) ==
    IF j.t \in {"null", "absent"} THEN Some(None)
    ELSE IF j.t = "str" THEN Some(Some(j.v)) ELSE None
OptNumFromJson(j) ==
    IF j.t \in {"null", "absent"} THEN Some(None)
    ELSE IF j.t = "num" THEN Some(Some(j.v)) ELSE None

\* a sequence of read values: all of them, or None when one failed
Collect(rs) ==
    IF \E i \in 1..Len(rs) : rs[i] = None THEN None
    ELSE Some([i \in 1..Len(rs) |-> Unwrap(rs[i])])

ItemTypeFromJson(j) ==
    IF j.t # "str" THEN None
    ELSE CASE j.v = "provider" -> Some("Provider")
           [] j.v = "model"    -> Some("Model")
           [] j.v = "version"  -> Some("Version")
           [] j.v = "prompt"   -> Some("Prompt")
           [] j.v = "settings" -> Some("Settings")
           [] OTHER            -> None

PromptVersionFromJson(j) ==
    IF j.t # "obj" THEN None
    ELSE LET id == StrFromJson(Field(j.v, "id"))
             timestamp == NumFromJson(Field(j.v, "timestamp"))
             content == StrFromJson(Field(j.v, "content"))
             label == OptStrFromJson(Field(j.v, "label"))
         IN IF id = None \/ timestamp = None \/ content = None \/ label = None
            THEN None
            ELSE Some(PromptVersion(Unwrap(id), Unwrap(timestamp), Unwrap(content),
                                    Unwrap(label)))

\* Option<Vec<String>>, Option<Vec<PromptVersion>>
OptTagsFromJson(j) ==
    IF j.t \in {"null", "absent"} THEN Some(None)
    ELSE IF j.t # "arr" THEN None
    ELSE LET tags == Collect([i \in 1..Len(j.v) |-> StrFromJson(j.v[i])])
         IN IF tags = None THEN None ELSE Some(tags)
OptVersionsFromJson(j) ==
    IF j.t \in {"null", "absent"} THEN Some(None)
    ELSE IF j.t # "arr" THEN None
    ELSE LET versions == Collect([i \in 1..Len(j.v) |-> PromptVersionFromJson(j.v[i])])
         IN IF versions = None THEN None ELSE Some(versions)

\* ItemMetadata; absent, it is ItemMetadata::default()
ItemMetadataFromJson(j) ==
    IF j.t = "absent" THEN Some(ItemMetadata(None, None, None))
    ELSE IF j.t # "obj" THEN None
    ELSE LET description == OptStrFromJson(Field(j.v, "description"))
             tags == OptTagsFromJson(Field(j.v, "tags"))
             last_modified == OptNumFromJson(Field(j.v, "lastModified"))
         IN IF description = None \/ tags = None \/ last_modified = None THEN None
            ELSE Some(ItemMetadata(Unwrap(description), Unwrap(tags),
                                   Unwrap(last_modified)))

\* TreeItem and Vec<TreeItem>; absent, children is Vec::default()
RECURSIVE ForestFromJson(_)
TreeItemFromJson(j) ==
    IF j.t # "obj" THEN None
    ELSE LET id == StrFromJson(Field(j.v, "id"))
             name == StrFromJson(Field(j.v, "name"))
             item_type == ItemTypeFromJson(Field(j.v, "type"))
             children == IF Field(j.v, "children").t = "absent" THEN Some(<<>>)
                         ELSE ForestFromJson(Field(j.v, "children"))
             parent_id == OptStrFromJson(Field(j.v, "parentId"))
             content == OptStrFromJson(Field(j.v, "content"))
             versions == OptVersionsFromJson(Field(j.v, "versions"))
             metadata == ItemMetadataFromJson(Field(j.v, "metadata"))
         IN IF \/ id = None \/ name = None \/ item_type = None \/ children = None
               \/ parent_id = None \/ content = None \/ versions = None
               \/ metadata = None
            THEN None
            ELSE Some(TreeItem(Unwrap(id), Unwrap(name), Unwrap(item_type),
                               Unwrap(children), Unwrap(parent_id), Unwrap(content),
                               Unwrap(versions), Unwrap(metadata)))

ForestFromJson(j) ==
    IF j.t # "arr" THEN None
    ELSE Collect([i \in 1..Len(j.v) |-> TreeItemFromJson(j.v[i])])

----------------------------------------------------------------------------
(* The inputs callers supply *)

\* ids a caller passes: 0 is the id of the node a stored forest holds (and of
\* the copies of it callers nest in candidates), 1 the first id the store
\* generates; each resolves or not, depending on the forest
ArgIds == {0, 1}

NoMetadata == ItemMetadata(None, None, None)

\* the node of a forest loaded from store.json
Seed ==
    TreeItem(0, <<115>>, "Provider", <<>>, None, None, None,
             ItemMetadata(Some(<<100>>), Some(<<<<116>>>>), Some(0)))

\* a node a caller nests inside a candidate; its id is the caller's
ChildLeaf == TreeItem(0, <<>>, "Version", <<>>, None, None, None, NoMetadata)

\* candidates for add_item: a bare one and one with every field set
CandPlain == TreeItem(0, <<97>>, "Provider", <<>>, None, None, None, NoMetadata)
CandFull ==
    TreeItem(1, <<99, 97, 116>>, "Prompt", <<ChildLeaf>>, Some(0),
             Some(<<99, 97, 116>>),
             Some(<<PromptVersion(0, 5, <<99>>, None)>>),
             ItemMetadata(Some(<<100>>), Some(<<<<116>>>>), Some(7)))
Candidates == {CandPlain, CandFull}

\* patches for update_item: one with every optional absent, one with all set
PatchEmpty == TreeItem(0, <<>>, "Settings", <<>>, None, None, None, NoMetadata)
PatchFull ==
    TreeItem(2, <<98>>, "Model", <<ChildLeaf>>, Some(2),
             Some(<<98>>), Some(<<>>),
             ItemMetadata(Some(<<101>>), Some(<<>>), Some(9)))
Patches == {PatchEmpty, PatchFull}

----------------------------------------------------------------------------
(* Results *)

NoRes == [tag |-> "none", msg |-> "", val |-> <<>>]
Ok(val) == [tag |-> "Ok", msg |-> "", val |-> val]
Err(msg) == [tag |-> "Err", msg |-> msg, val |-> <<>>]
\* a plain return value (get_all, get_item, search)
Value(val) == [tag |-> "value", msg |-> "", val |-> val]

ParentNotFound == "Parent not found"
ItemNotFound == "Item not found"
PersistenceFailure == "write failed"

NoCall == [op |-> "none", id |-> None, item |-> CandPlain, to |-> None]
NoLocal == [ret |-> <<>>, path |-> <<>>, prior |-> <<>>, content |-> JNull]

----------------------------------------------------------------------------
(* store.rs: the in-memory effect of each mutation, as the code computes it *)

\* (mutant) the caller's id is kept
Stamp_keepsCallerId(item, id, t) ==
    [item EXCEPT !.metadata.last_modified = Some(t)]

\* add_item, lines 72-73: the id and the timestamp are the store's
Stamp(item, id, t) ==
    [item EXCEPT !.id = id, !.metadata.last_modified = Some(t)]

\* (mutant) an item whose parent is not found becomes a root
Push_orphanToRoot(nodes, parent_id, item) ==
    LET path == IF IsSome(parent_id)
                THEN find_node_mut_recursive(nodes, Unwrap(parent_id)) ELSE <<>>
    IN IF path # <<>>
       THEN Some(SetAt(nodes, path,
                       [NodeAt(nodes, path) EXCEPT !.children = Append(@, item)]))
       ELSE Some(Append(nodes, item))

\* (mutant) the item is put first among its siblings
Push_first(nodes, parent_id, item) ==
    IF IsSome(parent_id)
    THEN LET path == find_node_mut_recursive(nodes, Unwrap(parent_id)) IN
         IF path # <<>>
         THEN Some(SetAt(nodes, path,
                         [NodeAt(nodes, path) EXCEPT !.children = <<item>> \o @]))
         ELSE None
    ELSE Some(<<item>> \o nodes)

\* add_item, lines 75-83: the forest with the item attached, or None when
\* the parent is not found (the `return Err` of line 79)
Push(nodes, parent_id, item) ==
    IF IsSome(parent_id)
    THEN LET path == find_node_mut_recursive(nodes, Unwrap(parent_id)) IN
         IF path # <<>>
         THEN Some(SetAt(nodes, path,
                         [NodeAt(nodes, path) EXCEPT !.children = Append(@, item)]))
         ELSE None
    ELSE Some(Append(nodes, item))

\* (mutant) the patch also replaces the node's kind, parent_id and children
SetFields_wholePatch(node, updates) ==
    [updates EXCEPT !.id = node.id, !.metadata = node.metadata]

\* update_item, lines 109-111
SetFields(node, updates) ==
    [node EXCEPT !.name = updates.name,
                 !.content = updates.content,
                 !.versions = updates.versions]

\* (mutant) the patch's metadata replaces the node's, absent values included
MergeMetadata_overwrite(node, updates, t) ==
    [node EXCEPT !.metadata =
        ItemMetadata(updates.metadata.description, updates.metadata.tags, Some(t))]

\* update_item, lines 114-116
MergeMetadata(node, updates, t) ==
    [node EXCEPT !.metadata =
        ItemMetadata(OptOr(updates.metadata.description, node.metadata.description),
                     OptOr(updates.metadata.tags, node.metadata.tags),
                     Some(t))]

----------------------------------------------------------------------------
(* The Mutex: lock() blocks until the mutex is free *)

\* the state of a Mutex whose holder panicked
Poisoned == 0 - 1

\* (mutant) a lock that excludes nobody
CanLock_unguarded(p) == TRUE

CanLock(p) == lock = 0

----------------------------------------------------------------------------
(* History: one entry per mutation, appended when it acquires the lock and  *)
(* completed with the id and time it drew once its body has run             *)

LogEntry(p, op, id, item) ==
    [proc |-> p, op |-> op, id |-> id, item |-> item,
     gid |-> 0, t |-> 0, ran |-> FALSE, failed |-> FALSE]

\* the index of p's entry that has not run yet
Pending(p) == CHOOSE i \in 1..Len(log) : log[i].proc = p /\ ~log[i].ran

Ran(p, gid, t) == [log EXCEPT ![Pending(p)].gid = gid, ![Pending(p)].t = t,
                              ![Pending(p)].ran = TRUE]

Mutations == {"add_item", "update_item", "delete_item"}

\* the index of p's latest entry
Mine(p) == CHOOSE i \in 1..Len(log) :
               log[i].proc = p /\ \A j \in (i + 1)..Len(log) : log[j].proc # p

\* the log once the write of p's mutation has failed
Failed(p) ==
    IF call[p].op \in Mutations THEN [log EXCEPT ![Mine(p)].failed = TRUE] ELSE log

----------------------------------------------------------------------------
(* Initial state: Store::new on an absent store.json, or on one that holds *)
(* a forest                                                                *)

InitForests == {<<>>, <<Seed>>}

Init ==
    /\ data \in InitForests
    /\ lock = 0
    /\ disk = IF data = <<>> THEN None ELSE Some(ForestJson(data))
    /\ now = 0
    /\ nextId = 1
    /\ pc = [p \in Procs |-> "idle"]
    /\ call = [p \in Procs |-> NoCall]
    /\ local = [p \in Procs |-> NoLocal]
    /\ res = [p \in Procs |-> NoRes]
    /\ ncalls = 0
    /\ log = <<>>
    /\ returned = {}
    /\ loaded = data

\* a caller starts a call; lock() returns at once when the mutex is free, so
\* a call starts here when it can take the lock (until then it is blocked)
Start(p, op, id, item, at) ==
    /\ pc[p] \in {"idle", "done"}
    /\ ncalls < MaxCalls
    /\ ncalls' = ncalls + 1
    /\ pc' = [pc EXCEPT ![p] = at]
    /\ call' = [call EXCEPT ![p] = [op |-> op, id |-> id, item |-> item, to |-> None]]
    /\ local' = [local EXCEPT ![p] = NoLocal]
    /\ UNCHANGED <<data, disk, nextId, returned, loaded>>

\* the function returns: its guard, if still held, is dropped
Return(p, r) ==
    /\ pc' = [pc EXCEPT ![p] = "done"]
    /\ res' = [res EXCEPT ![p] = r]

\* the wall clock, read: it has advanced since the last reading, until the
\* model's last instant, where it stays
Clock == {IF now < MaxTime THEN now + 1 ELSE now}

----------------------------------------------------------------------------
(* Store::add_item, called by the add_item command of main.rs *)

\* line 69
AddLock(p) ==
    \E parent_id \in {None} \cup {Some(i) : i \in ArgIds}, item \in Candidates :
        /\ CanLock(p)
        /\ Start(p, "add_item", parent_id, item, "add_body")
        /\ lock' = p
        /\ log' = Append(log, LogEntry(p, "add_item", parent_id, item))
        /\ res' = [res EXCEPT ![p] = NoRes]
        /\ UNCHANGED now

\* lines 72-86: stamp the item, attach it, drop the guard
AddBody(p) ==
    /\ pc[p] = "add_body"
    /\ \E t \in Clock :
        LET item == Stamp(call[p].item, nextId, t)
            pushed == Push(data, call[p].id, item)
        IN /\ now' = t
           /\ nextId' = nextId + 1
           /\ log' = Ran(p, nextId, t)
           /\ lock' = 0
           /\ IF pushed = None
              THEN /\ Return(p, Err(ParentNotFound))
                   /\ UNCHANGED <<data, local>>
              ELSE /\ data' = Unwrap(pushed)
                   /\ local' = [local EXCEPT ![p].ret = <<item>>]
                   /\ pc' = [pc EXCEPT ![p] = "save_lock"]
                   /\ UNCHANGED res
    /\ UNCHANGED <<disk, call, ncalls, returned, loaded>>

----------------------------------------------------------------------------
(* Store::update_item, called by the update_item command of main.rs *)

\* line 105
UpdateLock(p) ==
    \E id \in ArgIds, updates \in Patches :
        /\ CanLock(p)
        /\ Start(p, "update_item", Some(id), updates, "update_body")
        /\ lock' = p
        /\ log' = Append(log, LogEntry(p, "update_item", Some(id), updates))
        /\ res' = [res EXCEPT ![p] = NoRes]
        /\ UNCHANGED now

\* lines 107-111 and 125: find the node, overwrite name, content, versions
UpdateFields(p) ==
    /\ pc[p] = "update_body"
    /\ LET path == find_node_mut_recursive(data, Unwrap(call[p].id))
       IN IF path = <<>>
          THEN /\ Return(p, Err(ItemNotFound))
               /\ lock' = 0
               /\ log' = Ran(p, 0, now)
               /\ UNCHANGED <<data, local>>
          ELSE /\ data' = SetAt(data, path, SetFields(NodeAt(data, path), call[p].item))
               /\ local' = [local EXCEPT ![p].path = path,
                                         ![p].prior = <<NodeAt(data, path)>>]
               /\ pc' = [pc EXCEPT ![p] = "update_meta"]
               /\ UNCHANGED <<lock, log, res>>
    /\ UNCHANGED <<disk, now, nextId, call, ncalls, returned, loaded>>

\* lines 114-120: merge the metadata, clone the node, drop the guard
UpdateMeta(p) ==
    /\ pc[p] = "update_meta"
    /\ \E t \in Clock :
        LET path == local[p].path
            node == MergeMetadata(NodeAt(data, path), call[p].item, t)
        IN /\ now' = t
           /\ data' = SetAt(data, path, node)
           /\ local' = [local EXCEPT ![p].ret = <<node>>]
           /\ log' = Ran(p, 0, t)
    /\ lock' = 0
    /\ pc' = [pc EXCEPT ![p] = "save_lock"]
    /\ UNCHANGED <<disk, nextId, call, res, ncalls, returned, loaded>>

----------------------------------------------------------------------------
(* Store::delete_item, called by the delete_item command of main.rs *)

\* line 129
DeleteLock(p) ==
    \E id \in ArgIds :
        /\ CanLock(p)
        /\ Start(p, "delete_item", Some(id), CandPlain, "delete_body")
        /\ lock' = p
        /\ log' = Append(log, LogEntry(p, "delete_item", Some(id), CandPlain))
        /\ res' = [res EXCEPT ![p] = NoRes]
        /\ UNCHANGED now

\* (mutant) an id that resolves to no node is an error, as in update_item
DeleteBody_failsWhenMissing(p) ==
    /\ pc[p] = "delete_body"
    /\ data' = delete_node_recursive(data, Unwrap(call[p].id))
    /\ log' = Ran(p, 0, now)
    /\ lock' = 0
    /\ local' = [local EXCEPT ![p].prior = find_node_recursive(data, Unwrap(call[p].id))]
    /\ IF find_node_recursive(data, Unwrap(call[p].id)) = None
       THEN Return(p, Err(ItemNotFound))
       ELSE pc' = [pc EXCEPT ![p] = "save_lock"] /\ UNCHANGED res
    /\ UNCHANGED <<disk, now, nextId, call, ncalls, returned, loaded>>

\* lines 130-131; the node the id resolved to, if any, is kept as history
DeleteBody(p) ==
    /\ pc[p] = "delete_body"
    /\ data' = delete_node_recursive(data, Unwrap(call[p].id))
    /\ log' = Ran(p, 0, now)
    /\ lock' = 0
    /\ local' = [local EXCEPT ![p].prior = find_node_recursive(data, Unwrap(call[p].id))]
    /\ pc' = [pc EXCEPT ![p] = "save_lock"]
    /\ UNCHANGED <<disk, now, nextId, call, res, ncalls, returned, loaded>>

----------------------------------------------------------------------------
(* Store::save, called by the three mutations after they dropped the guard *)

\* (mutant) save serializes the forest without taking the lock
SaveLock_unlocked(p) ==
    /\ pc[p] = "save_lock"
    /\ local' = [local EXCEPT ![p].content = ForestJson(data)]
    /\ pc' = [pc EXCEPT ![p] = "save_write"]
    /\ UNCHANGED <<data, lock, disk, now, nextId, call, res, ncalls, log, returned, loaded>>

\* lines 41-42: take the lock, serialize the forest
SaveLock(p) ==
    /\ pc[p] = "save_lock"
    /\ CanLock(p)
    /\ lock' = p
    /\ local' = [local EXCEPT ![p].content = ForestJson(data)]
    /\ pc' = [pc EXCEPT ![p] = "save_write"]
    /\ UNCHANGED <<data, disk, now, nextId, call, res, ncalls, log, returned, loaded>>

\* what the caller gets once save returned Ok: lines 89, 123, 133
Outcome(p) == Ok(local[p].ret)

\* lines 43-44: fs::write succeeds; save returns and its guard is dropped
SaveWrite(p) ==
    /\ pc[p] = "save_write"
    /\ disk' = Some(local[p].content)
    /\ lock' = 0
    /\ Return(p, Outcome(p))
    /\ returned' = IF call[p].op = "add_item"
                   THEN returned \cup {local[p].ret[1].id} ELSE returned
    /\ UNCHANGED <<data, now, nextId, call, local, ncalls, log, loaded>>

\* (mutant) a failed write undoes the add
SaveFail_rollback(p) ==
    /\ pc[p] = "save_write"
    /\ disk' = disk
    /\ lock' = 0
    /\ Return(p, Err(PersistenceFailure))
    /\ data' = IF call[p].op = "add_item"
               THEN delete_node_recursive(data, local[p].ret[1].id) ELSE data
    /\ log' = Failed(p)
    /\ UNCHANGED <<now, nextId, call, local, ncalls, returned, loaded>>

\* line 43 and lines 87, 121, 132: fs::write fails, `?` returns the error
SaveFail(p) ==
    /\ pc[p] = "save_write"
    /\ disk' = disk
    /\ lock' = 0
    /\ Return(p, Err(PersistenceFailure))
    /\ log' = Failed(p)
    /\ UNCHANGED <<data, now, nextId, call, local, ncalls, returned, loaded>>

----------------------------------------------------------------------------
(* Store::get_all and Store::get_item: lock, read, unlock *)

\* lines 47-49
GetAll(p) ==
    /\ CanLock(p)
    /\ Start(p, "get_all", None, CandPlain, "done")
    /\ res' = [res EXCEPT ![p] = Value(data)]
    /\ UNCHANGED <<lock, now, log>>

\* lines 51-54
GetItem(p) ==
    \E id \in ArgIds :
        /\ CanLock(p)
        /\ Start(p, "get_item", Some(id), CandPlain, "done")
        /\ res' = [res EXCEPT ![p] = Value(find_node_recursive(data, id))]
        /\ UNCHANGED <<lock, now, log>>

----------------------------------------------------------------------------

Next ==
    \E p \in Procs :
        \/ AddLock(p)
        \/ AddBody(p)
        \/ UpdateLock(p)
        \/ UpdateFields(p)
        \/ UpdateMeta(p)
        \/ DeleteLock(p)
        \/ DeleteBody(p)
        \/ SaveLock(p)
        \/ SaveWrite(p)
        \/ SaveFail(p)
        \/ GetAll(p)
        \/ GetItem(p)

Spec == Init /\ [][Next]_vars

----------------------------------------------------------------------------
(* Store::move_item. main.rs line 47 calls it; store.rs does not define it. *)
(* It is modelled from the specification, section 4.1: detach the node with *)
(* its subtree, then look for the new parent in what is left; reject a new  *)
(* parent inside the detached subtree and a new parent that does not        *)
(* resolve; set the moved node's parent_id.                                 *)

CycleRejected == "Cycle rejected"

\* the forest without the node a path leads to
RECURSIVE RemoveAt(_, _)
RemoveAt(nodes, path) ==
    IF Len(path) = 1
    THEN SubSeq(nodes, 1, path[1] - 1) \o SubSeq(nodes, path[1] + 1, Len(nodes))
    ELSE [nodes EXCEPT ![path[1]].children = RemoveAt(@, Tail(path))]

MoveOutcome(err, nodes, moved) == [err |-> err, nodes |-> nodes, moved |-> moved]

\* (mutant) the new parent is looked for before the node is detached, and
\* nothing checks that it lies outside the subtree
move_item_attachFirst(nodes, item_id, new_parent_id) ==
    LET path == find_node_mut_recursive(nodes, item_id) IN
    IF path = <<>> THEN MoveOutcome(ItemNotFound, nodes, <<>>)
    ELSE
      LET moved == [NodeAt(nodes, path) EXCEPT !.parent_id = new_parent_id]
          to == IF IsSome(new_parent_id)
                THEN find_node_mut_recursive(nodes, Unwrap(new_parent_id)) ELSE <<>>
      IN IF ~IsSome(new_parent_id)
         THEN MoveOutcome("", Append(RemoveAt(nodes, path), moved), <<moved>>)
         ELSE IF to = <<>> THEN MoveOutcome(ItemNotFound, nodes, <<>>)
         ELSE MoveOutcome("",
                RemoveAt(SetAt(nodes, to,
                               [NodeAt(nodes, to) EXCEPT !.children = Append(@, moved)]),
                         path),
                <<moved>>)

\* the in-memory effect and the result of move_item(item_id, new_parent_id)
move_item(nodes, item_id, new_parent_id) ==
    LET path == find_node_mut_recursive(nodes, item_id) IN
    IF path = <<>> THEN MoveOutcome(ItemNotFound, nodes, <<>>)
    ELSE
      LET node == NodeAt(nodes, path)
          rest == RemoveAt(nodes, path)
          moved == [node EXCEPT !.parent_id = new_parent_id]
      IN IF ~IsSome(new_parent_id)
         THEN MoveOutcome("", Append(rest, moved), <<moved>>)
         ELSE
           LET to == find_node_mut_recursive(rest, Unwrap(new_parent_id)) IN
           IF Unwrap(new_parent_id) \in IdSet(<<node>>)
           THEN MoveOutcome(CycleRejected, nodes, <<>>)
           ELSE IF to = <<>> THEN MoveOutcome(ItemNotFound, nodes, <<>>)
           ELSE MoveOutcome("",
                  SetAt(rest, to, [NodeAt(rest, to) EXCEPT !.children = Append(@, moved)]),
                  <<moved>>)

\* a stored forest with nesting: 0 [ 1 [ 2 ] ], 3
MoveLeaf(id) == TreeItem(id, <<>>, "Prompt", <<>>, None, None, None, NoMetadata)
MoveForest ==
    << [MoveLeaf(0) EXCEPT !.children =
            << [MoveLeaf(1) EXCEPT !.parent_id = Some(0),
                                   !.children = << [MoveLeaf(2) EXCEPT !.parent_id = Some(1)] >>] >>],
       MoveLeaf(3) >>

\* the ids callers pass to move_item: those of MoveForest and one of no node
MoveIds == IdSet(MoveForest) \cup {Len(IdList(MoveForest)) + MaxCalls}

InitMove ==
    /\ data = MoveForest
    /\ lock = 0
    /\ disk = Some(ForestJson(data))
    /\ now = 0
    /\ nextId = Len(IdList(MoveForest))
    /\ pc = [p \in Procs |-> "idle"]
    /\ call = [p \in Procs |-> NoCall]
    /\ local = [p \in Procs |-> NoLocal]
    /\ res = [p \in Procs |-> NoRes]
    /\ ncalls = 0
    /\ log = <<>>
    /\ returned = {}
    /\ loaded = data

\* the command takes the lock
MoveLock(p) ==
    \E item_id \in MoveIds, new_parent_id \in {None} \cup {Some(i) : i \in MoveIds} :
        /\ CanLock(p)
        /\ pc[p] \in {"idle", "done"}
        /\ ncalls < MaxCalls
        /\ ncalls' = ncalls + 1
        /\ pc' = [pc EXCEPT ![p] = "move_body"]
        /\ call' = [call EXCEPT ![p] = [op |-> "move_item", id |-> Some(item_id),
                                        item |-> CandPlain, to |-> new_parent_id]]
        /\ local' = [local EXCEPT ![p] = NoLocal]
        /\ res' = [res EXCEPT ![p] = NoRes]
        /\ lock' = p
        /\ UNCHANGED <<data, disk, now, nextId, log, returned, loaded>>

\* the move under the lock; the guard is dropped, a failure returns at once
MoveBody(p) ==
    /\ pc[p] = "move_body"
    /\ LET out == move_item(data, Unwrap(call[p].id), call[p].to) IN
       /\ data' = out.nodes
       /\ lock' = 0
       /\ IF out.err # ""
          THEN /\ Return(p, Err(out.err))
               /\ UNCHANGED local
          ELSE /\ local' = [local EXCEPT ![p].ret = out.moved]
               /\ pc' = [pc EXCEPT ![p] = "save_lock"]
               /\ UNCHANGED res
    /\ UNCHANGED <<disk, now, nextId, call, ncalls, log, returned, loaded>>

\* one caller: what move_item does to the forest does not depend on others
OneCaller == {1}

NextMove ==
    \E p \in OneCaller :
        \/ MoveLock(p)
        \/ MoveBody(p)
        \/ AddLock(p)
        \/ AddBody(p)
        \/ DeleteLock(p)
        \/ DeleteBody(p)
        \/ SaveLock(p)
        \/ SaveWrite(p)
        \/ SaveFail(p)
        \/ GetItem(p)

SpecMove == InitMove /\ [][NextMove]_vars

----------------------------------------------------------------------------
(* Strings as Rust holds them: a str is the UTF-8 encoding of its chars,    *)
(* and find, len and slicing count bytes                                    *)

\* the UTF-8 encoding of one char (a Unicode scalar value below U+10000)
Utf8Char(c) ==
    IF c < 128 THEN <<c>>
    ELSE IF c < 2048 THEN <<192 + (c \div 64), 128 + (c % 64)>>
    ELSE <<224 + (c \div 4096), 128 + ((c \div 64) % 64), 128 + (c % 64)>>

RECURSIVE Utf8(_)
Utf8(s) == IF s = <<>> THEN <<>> ELSE Utf8Char(Head(s)) \o Utf8(Tail(s))

\* char::to_lowercase on Basic Latin and Latin-1: A-Z and the capital
\* letters U+00C0..U+00DE but the multiplication sign
LowerChar(c) ==
    IF (c >= 65 /\ c <= 90) \/ (c >= 192 /\ c <= 222 /\ c # 215) THEN c + 32 ELSE c

\* str::to_lowercase
to_lowercase(s) == [i \in 1..Len(s) |-> LowerChar(s[i])]

\* char::is_whitespace on the chars used here; str::trim().is_empty()
WhiteSpace == {9, 10, 11, 12, 13, 32}
IsBlank(s) == \A i \in 1..Len(s) : s[i] \in WhiteSpace

\* str::lines: split at "\n", the final line ending being optional
RECURSIVE lines(_)
lines(s) ==
    IF s = <<>> THEN <<>>
    ELSE IF \E k \in 1..Len(s) : s[k] = 10
    THEN LET k == CHOOSE k \in 1..Len(s) : s[k] = 10 /\ \A j \in 1..(k - 1) : s[j] # 10
         IN <<SubSeq(s, 1, k - 1)>> \o lines(SubSeq(s, k + 1, Len(s)))
    ELSE <<s>>

\* str::is_char_boundary(i) on the bytes of a str, i a 0-based byte index
is_char_boundary(bytes, i) ==
    \/ i = 0
    \/ i = Len(bytes)
    \/ i < Len(bytes) /\ ~(bytes[i + 1] >= 128 /\ bytes[i + 1] < 192)

\* the byte offsets at or after `from` at which the pattern occurs
OccursAt(bytes, pat, from) ==
    {i \in from..(Len(bytes) - Len(pat)) : SubSeq(bytes, i + 1, i + Len(pat)) = pat}

Min(S) == CHOOSE x \in S : \A y \in S : x <= y
Max(S) == CHOOSE x \in S : \A y \in S : x >= y

----------------------------------------------------------------------------
(* store.rs: search *)

SearchMatch(line_content, line_number, start_column, end_column) ==
    [line_content |-> line_content, line_number |-> line_number,
     start_column |-> start_column, end_column |-> end_column]

SearchResult(item_id, item_name, item_type, matches, last_modified) ==
    [item_id |-> item_id, item_name |-> item_name, item_type |-> item_type,
     matches |-> matches, last_modified |-> last_modified]

SearchFilters(types, date) == [types |-> types, date |-> date]

\* what a piece of search yields: the values pushed, or a panic
Found(out) == [panic |-> FALSE, out |-> out]
Panicked == [panic |-> TRUE, out |-> <<>>]
Both(a, b) == IF a.panic \/ b.panic THEN Panicked ELSE Found(a.out \o b.out)

\* lines 192-202: the while loop over one line, from start_idx; the slice
\* lower_line[start_idx..] panics when start_idx is inside a char
RECURSIVE line_matches(_, _, _, _, _)
line_matches(line, i, lower_line, query, start_idx) ==
    IF ~is_char_boundary(lower_line, start_idx) THEN Panicked
    ELSE LET at == OccursAt(lower_line, query, start_idx) IN
         IF at = {} THEN Found(<<>>)
         ELSE LET absolute_idx == Min(at) IN
              Both(Found(<<SearchMatch(line, i + 1, absolute_idx + 1,
                                       absolute_idx + 1 + Len(query))>>),
                   line_matches(line, i, lower_line, query, absolute_idx + 1))

\* lines 190-203: the for loop over content.lines().enumerate(), from line i
RECURSIVE content_matches(_, _, _)
content_matches(ls, i, query) ==
    IF i >= Len(ls) THEN Found(<<>>)
    ELSE Both(line_matches(ls[i + 1], i, Utf8(to_lowercase(ls[i + 1])), query, 0),
              content_matches(ls, i + 1, query))

\* lines 168-176
type_match(node, filters) ==
    IF IsSome(filters)
    THEN IF IsSome(Unwrap(filters).types)
         THEN LET types == Unwrap(Unwrap(filters).types) IN
              types = <<>> \/ node.item_type \in Range(types)
         ELSE TRUE
    ELSE TRUE

\* lines 164-219: one node; query is the UTF-8 of the lowercased query
search_node(node, query, filters) ==
    IF ~type_match(node, filters) THEN Found(<<>>)
    ELSE LET name_match == OccursAt(Utf8(to_lowercase(node.name)), query, 0) # {}
             matches == IF node.item_type = "Prompt" /\ IsSome(node.content)
                        THEN content_matches(lines(Unwrap(node.content)), 0, query)
                        ELSE Found(<<>>)
         IN IF matches.panic THEN Panicked
            ELSE IF name_match \/ matches.out # <<>>
            THEN Found(<<SearchResult(node.id, node.name, node.item_type, matches.out,
                                      node.metadata.last_modified)>>)
            ELSE Found(<<>>)

\* lines 162-223
RECURSIVE search_recursive(_, _, _)
search_recursive(nodes, query, filters) ==
    IF nodes = <<>> THEN Found(<<>>)
    ELSE Both(Both(search_node(Head(nodes), query, filters),
                   search_recursive(Head(nodes).children, query, filters)),
              search_recursive(Tail(nodes), query, filters))

\* lines 148-160
search(nodes, query, filters) ==
    IF IsBlank(query) THEN Found(<<>>)
    ELSE search_recursive(nodes, Utf8(to_lowercase(query)), filters)

----------------------------------------------------------------------------
(* Store::search, called by the search_items command, on stored forests of  *)
(* one Prompt with content                                                  *)

\* a, c, C, e-acute (two bytes in UTF-8) and the line feed
ContentChars == {97, 99, 67, 233, 10}

RECURSIVE Strings(_, _)
Strings(chars, n) ==
    IF n = 0 THEN {<<>>}
    ELSE LET shorter == Strings(chars, n - 1) IN
         shorter \cup {Append(s, c) : s \in {t \in shorter : Len(t) = n - 1}, c \in chars}

\* "cat\nconcatenate\n"
CatContent ==
    <<99, 97, 116, 10, 99, 111, 110, 99, 97, 116, 101, 110, 97, 116, 101, 10>>

Contents == Strings(ContentChars, MaxLen) \cup {CatContent}

\* "", " ", a, c, C, e-acute, E-acute, aa, ca, c e-acute, "a c", cat
Queries ==
    {<<>>, <<32>>, <<97>>, <<99>>, <<67>>, <<233>>, <<201>>, <<97, 97>>, <<99, 97>>,
     <<99, 233>>, <<97, 10, 99>>, <<99, 97, 116>>}

Filters ==
    {None,
     Some(SearchFilters(None, Some("week"))),
     Some(SearchFilters(Some(<<>>), None)),
     Some(SearchFilters(Some(<<"Provider", "Model">>), None)),
     Some(SearchFilters(Some(<<"Prompt">>), Some("today")))}

PromptWith(content) ==
    TreeItem(0, <<110>>, "Prompt", <<>>, None, Some(content), None, NoMetadata)

InitSearch ==
    /\ data \in {<<PromptWith(content)>> : content \in Contents}
    /\ lock = 0
    /\ disk = Some(ForestJson(data))
    /\ now = 0
    /\ nextId = 1
    /\ pc = [p \in Procs |-> "idle"]
    /\ call = [p \in Procs |-> NoCall]
    /\ local = [p \in Procs |-> NoLocal]
    /\ res = [p \in Procs |-> NoRes]
    /\ ncalls = 0
    /\ log = <<>>
    /\ returned = {}
    /\ loaded = data

\* the thread of the call panicked: it returns nothing
Panic == [tag |-> "panic", msg |-> "", val |-> <<>>]

\* lines 148-160, the first call after Store::new: lock, search, unlock; a
\* panic while the guard is held poisons the mutex
Search(p) ==
    \E query \in Queries, filters \in Filters :
        /\ CanLock(p)
        /\ pc[p] = "idle"
        /\ ncalls' = ncalls + 1
        /\ pc' = [pc EXCEPT ![p] = "done"]
        /\ call' = [call EXCEPT ![p] = [op |-> "search", id |-> None,
                                        item |-> [CandPlain EXCEPT !.name = query],
                                        to |-> filters]]
        /\ local' = [local EXCEPT ![p] = NoLocal]
        /\ LET found == search(data, query, filters) IN
           IF found.panic
           THEN /\ res' = [res EXCEPT ![p] = Panic]
                /\ lock' = Poisoned
           ELSE /\ res' = [res EXCEPT ![p] = Value(found.out)]
                /\ lock' = lock
        /\ UNCHANGED <<data, disk, now, nextId, log, returned, loaded>>

NextSearch == \E p \in OneCaller : Search(p)

SpecSearch == InitSearch /\ [][NextSearch]_vars

----------------------------------------------------------------------------
(* Store::search on stored forests with nesting and nodes of several kinds  *)

\* 0 Provider "Ca" [ 1 Model "x" [ 2 Prompt "n", with the content given ],
\*                   3 Prompt "ca", without content ],
\* 4 Settings "c"
SearchForest(content) ==
    << TreeItem(0, <<67, 97>>, "Provider",
                << TreeItem(1, <<120>>, "Model",
                            << TreeItem(2, <<110>>, "Prompt", <<>>, Some(1),
                                        Some(content), None, NoMetadata) >>,
                            Some(0), None, None, NoMetadata),
                   TreeItem(3, <<99, 97>>, "Prompt", <<>>, Some(0), None, None,
                            ItemMetadata(None, None, Some(0))) >>,
                None, None, None, NoMetadata),
       TreeItem(4, <<99>>, "Settings", <<>>, None, None, None, NoMetadata) >>

\* "a\nca", "c" e-acute, "x"
SearchForests ==
    {SearchForest(<<97, 10, 99, 97>>), SearchForest(<<99, 233>>), SearchForest(<<120>>)}

InitSearchTree ==
    /\ data \in SearchForests
    /\ lock = 0
    /\ disk = Some(ForestJson(data))
    /\ now = 0
    /\ nextId = Len(IdList(data))
    /\ pc = [p \in Procs |-> "idle"]
    /\ call = [p \in Procs |-> NoCall]
    /\ local = [p \in Procs |-> NoLocal]
    /\ res = [p \in Procs |-> NoRes]
    /\ ncalls = 0
    /\ log = <<>>
    /\ returned = {}
    /\ loaded = data

SpecSearchTree == InitSearchTree /\ [][NextSearch]_vars

----------------------------------------------------------------------------
(* All the operations of the store run by concurrent callers, search        *)
(* included, and what each does when it finds the Mutex poisoned: lock()    *)
(* returns an error at once, which add_item, update_item, delete_item and   *)
(* save hand to the caller (map_err, `?`) and get_all, get_item and search  *)
(* unwrap                                                                   *)

\* PoisonError::to_string
PoisonedLock == "poisoned lock: another task failed inside"

\* lines 69, 105, 129
LockPoisoned(p) ==
    \E op \in {"add_item", "update_item", "delete_item"} :
        /\ lock = Poisoned
        /\ Start(p, op, None, CandPlain, "done")
        /\ res' = [res EXCEPT ![p] = Err(PoisonedLock)]
        /\ UNCHANGED <<lock, now, log>>

\* lines 48, 52, 149
ReadPoisoned(p) ==
    \E op \in {"get_all", "get_item", "search"} :
        /\ lock = Poisoned
        /\ Start(p, op, None, CandPlain, "done")
        /\ res' = [res EXCEPT ![p] = Panic]
        /\ UNCHANGED <<lock, now, log>>

\* line 41, then lines 87, 121, 132
SavePoisoned(p) ==
    /\ pc[p] = "save_lock"
    /\ lock = Poisoned
    /\ Return(p, Err(PoisonedLock))
    /\ UNCHANGED <<data, lock, disk, now, nextId, call, local, ncalls, log, returned, loaded>>

\* a stored forest of one Prompt whose content is e-acute
InitLive ==
    /\ data = <<PromptWith(<<233>>)>>
    /\ lock = 0
    /\ disk = Some(ForestJson(data))
    /\ now = 0
    /\ nextId = 1
    /\ pc = [p \in Procs |-> "idle"]
    /\ call = [p \in Procs |-> NoCall]
    /\ local = [p \in Procs |-> NoLocal]
    /\ res = [p \in Procs |-> NoRes]
    /\ ncalls = 0
    /\ log = <<>>
    /\ returned = {}
    /\ loaded = data

NextLive ==
    \E p \in Procs :
        \/ AddLock(p)
        \/ AddBody(p)
        \/ UpdateLock(p)
        \/ UpdateFields(p)
        \/ UpdateMeta(p)
        \/ DeleteLock(p)
        \/ DeleteBody(p)
        \/ SaveLock(p)
        \/ SaveWrite(p)
        \/ SaveFail(p)
        \/ GetAll(p)
        \/ GetItem(p)
        \/ Search(p)
        \/ LockPoisoned(p)
        \/ ReadPoisoned(p)
        \/ SavePoisoned(p)

\* a call that has started goes on: the thread running it is scheduled, and
\* the write it issued ends, one way or the other. Whether a call starts at
\* all is up to the callers.
Fairness ==
    \A p \in Procs :
        /\ WF_vars(AddBody(p))
        /\ WF_vars(UpdateFields(p))
        /\ WF_vars(UpdateMeta(p))
        /\ WF_vars(DeleteBody(p))
        /\ WF_vars(SaveLock(p))
        /\ WF_vars(SavePoisoned(p))
        /\ WF_vars(SaveWrite(p) \/ SaveFail(p))

SpecLive == InitLive /\ [][NextLive]_vars /\ Fairness

----------------------------------------------------------------------------
(* Store::new, called by the setup hook of main: the store is constructed   *)
(* from whatever store.json holds, then serves calls; the application may   *)
(* be closed once no call is in progress and started again                  *)

\* what store.json holds when it is not the text of a JSON value, and when
\* it cannot be read as a string at all
Malformed == [t |-> "malformed"]
Unreadable == [t |-> "unreadable"]

\* line 27: fs::read_to_string(..).unwrap_or_else(|_| "[]")
read_to_string(file) == IF file.t = "unreadable" THEN JArr(<<>>) ELSE file

\* line 28: serde_json::from_str
from_str(content) == IF content.t = "malformed" THEN None ELSE ForestFromJson(content)

\* (mutant) a store that finds no file starts with seed data
new_seedsWhenAbsent(file) ==
    IF IsSome(file)
    THEN LET parsed == from_str(read_to_string(Unwrap(file)))
         IN IF parsed = None THEN <<>> ELSE Unwrap(parsed)
    ELSE <<Seed>>

\* Store::new, lines 26-32: the forest the store starts with
new(file) ==
    IF IsSome(file)
    THEN LET parsed == from_str(read_to_string(Unwrap(file)))
         IN IF parsed = None THEN <<>> ELSE Unwrap(parsed)
    ELSE <<>>

\* a stored forest with nesting, two children in one sequence, every field set
NestedForest ==
    << [Seed EXCEPT !.children = <<ChildLeaf, [CandFull EXCEPT !.id = 2]>>] >>

\* the forest two calls add_item(None, CandFull) of an earlier run left: two
\* roots with the ids the store gave them, each with the child the caller
\* nested, under the caller's id
TwinForest == << [CandFull EXCEPT !.id = 1], [CandFull EXCEPT !.id = 2] >>

\* a document written by hand: a node with only the required keys, nested
\* in one that spells out nulls
SparseDoc ==
    JArr(<< JObj([id |-> JStr(0), name |-> JStr(<<115>>), type |-> JStr("model"),
                  children |-> JArr(<< JObj([id |-> JStr(2), name |-> JStr(<<>>),
                                              type |-> JStr("settings")]) >>),
                  parentId |-> JNull, content |-> JNull, versions |-> JNull]) >>)
SparseForest ==
    << TreeItem(0, <<115>>, "Model",
                << TreeItem(2, <<>>, "Settings", <<>>, None, None, None, NoMetadata) >>,
                None, None, None, NoMetadata) >>

\* documents that are JSON but no forest: an object, a node without a name,
\* a node of an unknown type, a node whose child is a number
NotAForest ==
    { JObj([id |-> JStr(0)]),
      JArr(<< JObj([id |-> JStr(0), type |-> JStr("model")]) >>),
      JArr(<< JObj([id |-> JStr(0), name |-> JStr(<<>>), type |-> JStr("Model")]) >>),
      JArr(<< TreeItemJson(Seed),
              JObj([id |-> JStr(2), name |-> JStr(<<>>), type |-> JStr("model"),
                    children |-> JArr(<<JNum(0)>>)]) >>) }

\* the states of store.json a store may be constructed on, each with the
\* forest it contains (none when it is no valid document)
Stored(file, valid, forest) == [file |-> file, valid |-> valid, forest |-> forest]
Documents ==
    {Stored(None, FALSE, <<>>),
     Stored(Some(Unreadable), FALSE, <<>>),
     Stored(Some(Malformed), FALSE, <<>>),
     Stored(Some(JArr(<<>>)), TRUE, <<>>),
     Stored(Some(ForestJson(<<Seed>>)), TRUE, <<Seed>>),
     Stored(Some(ForestJson(NestedForest)), TRUE, NestedForest),
     Stored(Some(ForestJson(TwinForest)), TRUE, TwinForest),
     Stored(Some(SparseDoc), TRUE, SparseForest)}
    \cup {Stored(Some(doc), FALSE, <<>>) : doc \in NotAForest}

\* the ids found in these documents: the store generates none of them again
StoredIds == UNION {IdSet(d.forest) : d \in Documents}

InitNew ==
    /\ disk \in {d.file : d \in Documents}
    /\ data = <<>>
    /\ lock = 0
    /\ now = 0
    /\ nextId = 1 + Max(StoredIds)
    /\ pc = [p \in Procs |-> "new"]
    /\ call = [p \in Procs |-> NoCall]
    /\ local = [p \in Procs |-> NoLocal]
    /\ res = [p \in Procs |-> NoRes]
    /\ ncalls = 0
    /\ log = <<>>
    /\ returned = {}
    /\ loaded = <<>>

\* main.rs lines 53-56 and store.rs lines 14-38: the application starts (for
\* the first time, or again after calls were served) and builds its store
New ==
    /\ \A p \in Procs : pc[p] \in {"new", "idle", "done"}
    /\ \E p \in Procs : pc[p] # "idle"
    /\ data' = new(disk)
    /\ loaded' = data'
    /\ lock' = 0
    /\ pc' = [p \in Procs |-> "idle"]
    /\ call' = [p \in Procs |-> NoCall]
    /\ local' = [p \in Procs |-> NoLocal]
    /\ res' = [p \in Procs |-> NoRes]
    /\ log' = <<>>
    /\ returned' = {}
    /\ UNCHANGED <<disk, now, nextId, ncalls>>

NextNew ==
    \/ New
    \/ \E p \in OneCaller :
        \/ AddLock(p)
        \/ AddBody(p)
        \/ UpdateLock(p)
        \/ UpdateFields(p)
        \/ UpdateMeta(p)
        \/ DeleteLock(p)
        \/ DeleteBody(p)
        \/ SaveLock(p)
        \/ SaveWrite(p)
        \/ SaveFail(p)
        \/ GetAll(p)

SpecNew == InitNew /\ [][NextNew]_vars

----------------------------------------------------------------------------
(* The mutations applied one at a time, in the order of the log *)

ApplyEntry(nodes, e) ==
    CASE e.op = "add_item" ->
            LET pushed == Push(nodes, e.id, Stamp(e.item, e.gid, e.t)) IN
            IF pushed = None THEN nodes ELSE Unwrap(pushed)
      [] e.op = "update_item" ->
            LET path == find_node_mut_recursive(nodes, Unwrap(e.id)) IN
            IF path = <<>> THEN nodes
            ELSE SetAt(nodes, path,
                       MergeMetadata(SetFields(NodeAt(nodes, path), e.item), e.item, e.t))
      [] e.op = "delete_item" -> delete_node_recursive(nodes, Unwrap(e.id))

RECURSIVE Replay(_, _)
Replay(nodes, entries) ==
    IF entries = <<>> THEN nodes
    ELSE Replay(ApplyEntry(nodes, Head(entries)), Tail(entries))

AllRan(entries) == \A i \in 1..Len(entries) : entries[i].ran

\* caller p takes a step / returns in this step
Steps(p) == pc'[p] # pc[p] \/ call'[p] # call[p]
Returns(p) == pc[p] # "done" /\ pc'[p] = "done"

----------------------------------------------------------------------------
(* Properties *)

\* C1: after any sequence of add_item, update_item and delete_item calls on a
\* forest with pairwise distinct ids, no two nodes of the forest share an id.
C1_IdsUnique == Len(IdList(data)) = Cardinality(IdSet(data))

\* C2: delete_item(id) of an id add_item returned leaves neither id nor any
\* id of a descendant of that node resolvable, and removes nothing but that
\* node's subtree.
C2_DeleteRemovesSubtree ==
    [][\A p \in Procs :
        (pc[p] = "delete_body" /\ Steps(p) /\ Unwrap(call[p].id) \in returned
            /\ IsSome(find_node_recursive(data, Unwrap(call[p].id))))
        => LET id == Unwrap(call[p].id)
               node == Unwrap(find_node_recursive(data, id))
           IN /\ find_node_recursive(data', id) = None
              /\ \A d \in IdSet(node.children) : find_node_recursive(data', d) = None
              /\ CountNodes(data') = CountNodes(data) - CountNodes(<<node>>)]_vars

\* the node add_item(None, X) leaves in the forest under the id it returns:
\* X in every field but id and metadata.last_modified
AddedAsGiven(p) ==
    LET x == call[p].item
        got == find_node_recursive(data', nextId)
    IN /\ IsSome(got)
       /\ Unwrap(got) = TreeItem(nextId, x.name, x.item_type, x.children, x.parent_id,
                                 x.content, x.versions,
                                 ItemMetadata(x.metadata.description, x.metadata.tags,
                                              Some(now')))
       /\ nextId \notin IdSet(data)
       /\ Some(now') # x.metadata.last_modified
       /\ local'[p].ret = got

RootAdd(p) == call[p].op = "add_item" /\ call[p].id = None

\* C3 as stated: for every candidate X, add_item(None, X) succeeds, and
\* get_item of the returned id gives X but for id and last_modified.
C3_RootAddSucceeds ==
    [][\A p \in Procs : RootAdd(p) =>
        /\ (pc[p] = "add_body" /\ Steps(p)) => (pc'[p] = "save_lock" /\ AddedAsGiven(p))
        /\ Returns(p) => res'[p] = Ok(local[p].ret)]_vars

\* C3 amended: for every candidate X, add_item(None, X) puts X in the
\* forest, but for id and last_modified which are the store's, under the
\* id it returns; it returns that node unless the persistence write fails,
\* and then it returns that failure.
C3_RootAdd ==
    [][\A p \in Procs : RootAdd(p) =>
        /\ (pc[p] = "add_body" /\ Steps(p)) => (pc'[p] = "save_lock" /\ AddedAsGiven(p))
        /\ Returns(p) => \/ res'[p] = Ok(local[p].ret) /\ disk' = Some(local[p].content)
                         \/ res'[p] = Err(PersistenceFailure) /\ pc[p] = "save_write"
                            /\ disk' = disk]_vars

C3_Witness ==
    \E p \in Procs : /\ RootAdd(p) /\ pc[p] = "done" /\ res[p].tag = "Ok"
                     /\ call[p].item = CandFull
                     /\ find_node_recursive(data, res[p].val[1].id) = res[p].val

\* C4: add_item with a parent_id that resolves to no node, and update_item
\* with an id that resolves to no node, return ParentNotFound / ItemNotFound,
\* leave the forest as it was and return without a persistence write.
C4_NotFoundLeavesForest ==
    [][\A p \in Procs :
        /\ (pc[p] = "add_body" /\ Steps(p) /\ IsSome(call[p].id)
                /\ find_node_recursive(data, Unwrap(call[p].id)) = None)
           => (Returns(p) /\ res'[p] = Err(ParentNotFound)
                 /\ data' = data /\ disk' = disk)
        /\ (pc[p] = "update_body" /\ Steps(p)
                /\ find_node_recursive(data, Unwrap(call[p].id)) = None)
           => (Returns(p) /\ res'[p] = Err(ItemNotFound)
                 /\ data' = data /\ disk' = disk)]_vars

C4_Witness ==
    \E p, q \in Procs :
        /\ pc[p] = "done" /\ res[p] = Err(ParentNotFound)
        /\ pc[q] = "done" /\ res[q] = Err(ItemNotFound)
        /\ data = loaded /\ data # <<>>

\* C5: after update_item(id, patch) on an existing id the node's name,
\* content and versions are the patch's; description and tags are the
\* patch's where it supplies one and the node's prior value otherwise;
\* last_modified is the current time whatever the patch carries.
C5_UpdateMerges ==
    [][\A p \in Procs :
        (pc[p] = "update_meta" /\ Steps(p))
        => LET patch == call[p].item
               prior == local[p].prior[1]
               got == find_node_recursive(data', Unwrap(call[p].id))
               node == Unwrap(got)
           IN /\ IsSome(got)
              /\ node.name = patch.name
              /\ node.content = patch.content
              /\ node.versions = patch.versions
              /\ node.metadata.description =
                    IF patch.metadata.description # None
                    THEN patch.metadata.description ELSE prior.metadata.description
              /\ node.metadata.tags =
                    IF patch.metadata.tags # None
                    THEN patch.metadata.tags ELSE prior.metadata.tags
              /\ node.metadata.last_modified = Some(now')
              /\ local'[p].ret = got]_vars

C5_Witness ==
    \E p \in Procs :
        /\ call[p].op = "update_item" /\ call[p].item = PatchEmpty
        /\ pc[p] = "done" /\ res[p].tag = "Ok"
        /\ res[p].val[1].name = <<>>
        /\ res[p].val[1].metadata.tags = Seed.metadata.tags
        /\ res[p].val[1].metadata.last_modified # Seed.metadata.last_modified

\* C6: the persistence write of add_item, update_item and delete_item is
\* performed while the store lock is not held, so that a reader can take
\* the lock while the write is in progress.
C6_WriteOutsideLock ==
    \A p \in Procs : pc[p] = "save_write" => \A q \in Procs \ {p} : CanLock(q)

\* C7: the in-memory effects of concurrent mutations never interleave: the
\* forest is the one obtained by applying the mutations one at a time in the
\* order in which they acquired the lock, and every read sees the forest as
\* it was after some number of these mutations, none of them half applied.
C7_MutationsSerialized ==
    [][/\ AllRan(log') => data' = Replay(loaded, log')
       /\ \A p \in Procs :
            (Steps(p) /\ call'[p].op \in {"get_all", "get_item"})
            => \E k \in 0..Len(log) :
                 /\ AllRan(SubSeq(log, 1, k))
                 /\ LET seen == Replay(loaded, SubSeq(log, 1, k)) IN
                    res'[p].val = IF call'[p].op = "get_all" THEN seen
                                  ELSE find_node_recursive(seen, Unwrap(call'[p].id))]_vars

\* two calls in progress at once, both with their mutation applied and
\* neither saved yet
C7_Witness ==
    /\ Len(log) = 2 /\ AllRan(log)
    /\ log[1].proc # log[2].proc
    /\ \A p \in Procs : pc[p] \in {"save_lock", "save_write"}
    /\ data # loaded
    /\ data = Replay(loaded, log)

\* C8: when the persistence write of a mutation fails, the call returns the
\* failure, the forest keeps the mutation (it is not rolled back) and the
\* write is not tried again.
C8_FailedWriteKeepsMutation ==
    [][\A p \in Procs :
        (pc[p] = "save_write" /\ Steps(p))
        => /\ Returns(p)
           /\ res'[p].tag = "Ok" => disk' = Some(local[p].content)
           /\ res'[p].tag # "Ok" =>
                /\ res'[p] = Err(PersistenceFailure)
                /\ data' = data
                /\ AllRan(log') => data' = Replay(loaded, log')]_vars

C8_Witness ==
    \E p \in Procs :
        /\ pc[p] = "done" /\ res[p] = Err(PersistenceFailure)
        /\ call[p].op = "add_item"
        /\ IsSome(find_node_recursive(data, local[p].ret[1].id))
        /\ disk # Some(ForestJson(data))

\* how often an id occurs in a forest
IdCount(nodes, id) ==
    Cardinality({i \in 1..Len(IdList(nodes)) : IdList(nodes)[i] = id})

Last(seq) == seq[Len(seq)]

\* C9: move_item is rejected with CycleRejected when new_parent_id is the
\* item's own id or the id of one of its descendants, and with ItemNotFound
\* when item_id or a given new_parent_id resolves to no node, the forest
\* staying as it was; otherwise the node with its whole subtree becomes the
\* last child of the new parent (the last root when none is given) with its
\* parent_id set, and no node is lost, duplicated or shared: every id occurs
\* in the forest as often as before.
C9_Move ==
    [][\A p \in Procs :
        (pc[p] = "move_body" /\ Steps(p))
        => LET item_id == Unwrap(call[p].id)
               to == call[p].to
               found == find_node_recursive(data, item_id)
               rejected(msg) == /\ Returns(p) /\ res'[p] = Err(msg)
                                /\ data' = data /\ disk' = disk
           IN IF found = None THEN rejected(ItemNotFound)
              ELSE IF IsSome(to) /\ Unwrap(to) \in IdSet(found)
                   THEN rejected(CycleRejected)
              ELSE IF IsSome(to) /\ find_node_recursive(data, Unwrap(to)) = None
                   THEN rejected(ItemNotFound)
              ELSE LET node == Unwrap(found)
                       moved == TreeItem(node.id, node.name, node.item_type,
                                         node.children, to, node.content,
                                         node.versions, node.metadata)
                   IN /\ pc'[p] = "save_lock"
                      /\ local'[p].ret = <<moved>>
                      /\ IF IsSome(to)
                         THEN Last(Unwrap(find_node_recursive(data', Unwrap(to))).children)
                                = moved
                         ELSE Last(data') = moved
                      /\ CountNodes(data') = CountNodes(data)
                      /\ \A id \in IdSet(data) \cup IdSet(data') :
                            IdCount(data', id) = IdCount(data, id)]_vars

\* node 1 was moved, with its child 2, from under node 0 to under node 3
C9_Witness ==
    \E p \in Procs :
        /\ call[p].op = "move_item" /\ pc[p] = "done" /\ res[p].tag = "Ok"
        /\ call[p].id = Some(MoveForest[1].children[1].id)
        /\ call[p].to = Some(MoveForest[2].id)
        /\ data = << [MoveForest[1] EXCEPT !.children = <<>>],
                     [MoveForest[2] EXCEPT !.children = res[p].val] >>
        /\ res[p].val[1].children = MoveForest[1].children[1].children
        /\ res[p].val[1].parent_id = call[p].to

\* the SearchMatch entries the specification asks for a line: one per char
\* index, from index i on, at which the folded query occurs in the folded line
RECURSIVE LineOccurrences(_, _, _, _)
LineOccurrences(line, n, q, i) ==
    LET folded == to_lowercase(line)
        pat == to_lowercase(q)
    IN IF i + Len(pat) > Len(folded) THEN <<>>
       ELSE (IF SubSeq(folded, i + 1, i + Len(pat)) = pat
             THEN <<SearchMatch(line, n, i + 1, i + 1 + Len(q))>> ELSE <<>>)
            \o LineOccurrences(line, n, q, i + 1)

\* ... and for the lines of a content, from line n on
RECURSIVE ContentOccurrences(_, _, _)
ContentOccurrences(ls, n, q) ==
    IF n > Len(ls) THEN <<>>
    ELSE LineOccurrences(ls[n], n, q, 0) \o ContentOccurrences(ls, n + 1, q)

\* C10: for a non-blank query and a Prompt with content, search reports for
\* each line (numbered from 1) one SearchMatch per index at which the folded
\* query occurs in the folded line, overlaps included, in increasing order,
\* with start_column = index + 1 and end_column = start_column + length of
\* the query.
C10_MatchPerOccurrence ==
    \A p \in Procs :
        (pc[p] = "done" /\ call[p].op = "search" /\ ~IsBlank(call[p].item.name)
            /\ type_match(data[1], call[p].to))
        => LET query == call[p].item.name
               expected == ContentOccurrences(lines(Unwrap(data[1].content)), 1, query)
           IN /\ res[p].tag = "value"
              /\ IF expected = <<>> THEN res[p].val = <<>>
                 ELSE /\ Len(res[p].val) = 1
                      /\ res[p].val[1].matches = expected

\* C11: the columns of every SearchMatch count chars, not bytes: the folded
\* query occurs in the folded line at char index start_column - 1 (so
\* start_column is the number of chars before the occurrence plus 1), and
\* end_column - start_column is the number of chars of the query.
C11_ColumnsInChars ==
    \A p \in Procs :
        (pc[p] = "done" /\ call[p].op = "search" /\ res[p].tag = "value")
        => \A r \in 1..Len(res[p].val) :
             \A k \in 1..Len(res[p].val[r].matches) :
                LET m == res[p].val[r].matches[k]
                    query == call[p].item.name
                IN /\ m.end_column - m.start_column = Len(query)
                   /\ SubSeq(to_lowercase(m.line_content), m.start_column,
                             m.start_column + Len(query) - 1) = to_lowercase(query)

\* the application starts in this step
Starts == \E p \in Procs : pc[p] # "idle" /\ pc'[p] = "idle"

\* C12: once save has written the forest that add_item, update_item or
\* delete_item left, a store constructed from the written document holds a
\* forest equal to it, children in the same order, and get_all returns it.
C12_RoundTrip ==
    [][/\ (Starts /\ \E p \in Procs : /\ pc[p] = "done" /\ res[p].tag = "Ok"
                                       /\ call[p].op \in Mutations)
          => data' = data
       /\ \A p \in Procs : (Steps(p) /\ call'[p].op = "get_all")
                             => res'[p] = Value(data)]_vars

\* the store was started again after an add_item, and get_all gave the
\* forest with the added node in its place
C12_Witness ==
    \E p \in Procs :
        /\ pc[p] = "done" /\ call[p].op = "get_all" /\ res[p] = Value(data)
        /\ log = <<>> /\ loaded = data
        /\ Len(data) = 1 /\ Len(data[1].children) = 1 + Len(NestedForest[1].children)
        /\ Last(data[1].children).id \notin StoredIds
        /\ Last(data[1].children).versions = CandFull.versions

DeleteMissing(p) == call[p].op = "delete_item" /\ local[p].prior = None

\* C14 as stated: delete_item(id) with an id that resolves to no node leaves
\* the forest unchanged, writes the whole forest and returns success.
C14_DeleteMissingSucceeds ==
    [][\A p \in Procs :
        /\ (pc[p] = "delete_body" /\ Steps(p)
                /\ find_node_recursive(data, Unwrap(call[p].id)) = None)
           => (data' = data /\ pc'[p] = "save_lock")
        /\ (DeleteMissing(p) /\ pc[p] = "save_lock" /\ Steps(p))
           => local'[p].content = ForestJson(data)
        /\ (DeleteMissing(p) /\ Returns(p))
           => (res'[p] = Ok(<<>>) /\ disk' = Some(local[p].content))]_vars

\* C14 amended: delete_item(id) with an id that resolves to no node reports
\* no missing item and leaves the forest unchanged; it goes on to write the
\* whole forest, and returns success when that write succeeds and the
\* write's failure when it fails.
C14_DeleteMissing ==
    [][\A p \in Procs :
        /\ (pc[p] = "delete_body" /\ Steps(p)
                /\ find_node_recursive(data, Unwrap(call[p].id)) = None)
           => (data' = data /\ pc'[p] = "save_lock")
        /\ (DeleteMissing(p) /\ pc[p] = "save_lock" /\ Steps(p))
           => local'[p].content = ForestJson(data)
        /\ (DeleteMissing(p) /\ Returns(p))
           => \/ res'[p] = Ok(<<>>) /\ disk' = Some(local[p].content)
              \/ res'[p] = Err(PersistenceFailure) /\ pc[p] = "save_write"
                 /\ disk' = disk]_vars

\* a delete_item of an id no node carries returned Ok, and the document it
\* wrote holds the node another call had added but failed to write
C14_Witness ==
    \E p, q \in Procs :
        /\ DeleteMissing(p) /\ pc[p] = "done" /\ res[p] = Ok(<<>>)
        /\ call[q].op = "add_item" /\ res[q] = Err(PersistenceFailure)
        /\ data # loaded /\ disk = Some(ForestJson(data))

\* the ids of the nodes of one children sequence
SiblingIds(nodes) == {nodes[i].id : i \in 1..Len(nodes)}

\* a children sequence and what a step made of it: the nodes that are still
\* there, in the order they had (their own children likewise), followed by
\* nodes whose ids none of the siblings had
RECURSIVE OrderKept(_, _, _)
OrderKept(before, after, ids) ==
    IF after = <<>> THEN TRUE
    ELSE IF before = <<>> THEN \A i \in 1..Len(after) : after[i].id \notin ids
    ELSE \/ /\ Head(before).id = Head(after).id
            /\ OrderKept(Head(before).children, Head(after).children,
                         SiblingIds(Head(before).children))
            /\ OrderKept(Tail(before), Tail(after), ids)
         \/ OrderKept(Tail(before), after, ids)

RECURSIVE NodeList(_)
NodeList(nodes) ==
    IF nodes = <<>> THEN <<>>
    ELSE <<Head(nodes)>> \o NodeList(Head(nodes).children) \o NodeList(Tail(nodes))

\* several nodes carry this id, in different branches: none below another
DifferentBranches(nodes, id) ==
    /\ IdCount(nodes, id) > 1
    /\ \A k \in 1..Len(NodeList(nodes)) :
          NodeList(nodes)[k].id = id => id \notin IdSet(NodeList(nodes)[k].children)

\* C16: when several nodes in different branches carry the id, delete_item
\* removes exactly one of them, the first in document order, and every other
\* node with that id stays in the forest.
C16_DeleteRemovesOne ==
    [][\A p \in Procs :
        (pc[p] = "delete_body" /\ Steps(p)
            /\ DifferentBranches(data, Unwrap(call[p].id)))
        => LET id == Unwrap(call[p].id) IN
           /\ IdCount(data', id) = IdCount(data, id) - 1
           /\ data' = RemoveAt(data, find_node_mut_recursive(data, id))]_vars

\* a node is eligible: no filter, no type set, an empty one, or its kind in it
Eligible(node, filters) ==
    \/ filters = None
    \/ Unwrap(filters).types = None
    \/ Unwrap(Unwrap(filters).types) = <<>>
    \/ \E i \in 1..Len(Unwrap(Unwrap(filters).types)) :
          Unwrap(Unwrap(filters).types)[i] = node.item_type

\* the folded string contains the folded query
Contains(str, q) ==
    \E i \in 0..(Len(str) - Len(q)) :
        SubSeq(to_lowercase(str), i + 1, i + Len(q)) = to_lowercase(q)

\* the node is to be reported for the query
Reported(node, q, filters) ==
    /\ Eligible(node, filters)
    /\ \/ Contains(node.name, q)
       \/ /\ node.item_type = "Prompt" /\ IsSome(node.content)
          /\ ContentOccurrences(lines(Unwrap(node.content)), 1, q) # <<>>

\* C17: for a non-blank query search reports, in document order, exactly
\* the nodes that are eligible and whose folded name contains the folded
\* query or that are a Prompt with a content match; children are searched
\* whatever became of their parent, and the date filter excludes nothing.
C17_SearchReportsInOrder ==
    \A p \in Procs :
        (pc[p] = "done" /\ call[p].op = "search" /\ ~IsBlank(call[p].item.name))
        => LET Hit(node) == Reported(node, call[p].item.name, call[p].to)
               expected == SelectSeq(NodeList(data), Hit)
           IN /\ res[p].tag = "value"
              /\ Len(res[p].val) = Len(expected)
              /\ \A k \in 1..Len(expected) :
                    /\ res[p].val[k].item_id = expected[k].id
                    /\ res[p].val[k].item_name = expected[k].name
                    /\ res[p].val[k].item_type = expected[k].item_type
                    /\ res[p].val[k].last_modified = expected[k].metadata.last_modified

\* a call is in progress
Running(p) == pc[p] \notin {"new", "idle", "done"}

\* C18: every call runs to completion: a call in progress ends, whatever the
\* other callers do (none waits for a lock that is never released), and a
\* call that has ended has returned a value or a failure outcome, search on
\* content with multi-byte chars included.
C18_RunsToCompletion ==
    /\ [](\A p \in Procs : pc[p] = "done" => res[p].tag \in {"Ok", "Err", "value"})
    /\ \A p \in Procs : Running(p) ~> pc[p] = "done"

\* no call is in progress
Quiet == \A p \in Procs : pc[p] \in {"idle", "done"}

NoWriteFailed == \A i \in 1..Len(log) : ~log[i].failed

\* store.json holds the forest that is in memory (no file: no node)
DiskIsMemory == disk = Some(ForestJson(data)) \/ (disk = None /\ data = <<>>)

\* store.json holds a forest that was in memory after some of the mutations
DiskWasMemory ==
    \/ disk = None
    \/ \E k \in 0..Len(log) :
          /\ AllRan(SubSeq(log, 1, k))
          /\ disk = Some(ForestJson(Replay(loaded, SubSeq(log, 1, k))))

\* C19: whatever the interleaving of add_item, update_item and delete_item
\* calls, when all have returned and no persistence write has failed,
\* store.json holds the forest that is in memory; every document written is
\* the whole forest as it was in memory when save serialized it; and
\* store.json never holds a forest that memory never held.
C19_DiskFollowsMemory ==
    /\ []((Quiet /\ NoWriteFailed) => DiskIsMemory)
    /\ []DiskWasMemory
    /\ [][\A p \in Procs :
            /\ (pc[p] = "save_lock" /\ Steps(p)) => local'[p].content = ForestJson(data)
            /\ (pc[p] = "save_write" /\ Steps(p) /\ res'[p].tag = "Ok")
               => (disk' = Some(local[p].content) /\ disk' = Some(ForestJson(data)))]_vars

\* a call returned after writing a document that holds the mutation of a
\* later call, which has not saved yet
C19_Witness ==
    \E p, q \in Procs :
        /\ Len(log) = 2 /\ log[1].proc = p /\ log[2].proc = q /\ p # q
        /\ AllRan(log) /\ NoWriteFailed
        /\ pc[p] = "done" /\ res[p].tag = "Ok" /\ pc[q] = "save_lock"
        /\ data # Replay(loaded, SubSeq(log, 1, 1))
        /\ disk = Some(ForestJson(data))

\* C20: a successful update_item(id, patch) changes nothing but the name,
\* content, versions and metadata of the node the id resolves to: that
\* node keeps its id, kind, parent_id and children whatever the patch
\* carries there, and the rest of the forest is as it was.
C20_UpdateFrame ==
    [][\A p \in Procs :
        (pc[p] \in {"update_body", "update_meta"} /\ Steps(p) /\ ~Returns(p))
        => LET path == find_node_mut_recursive(data, Unwrap(call[p].id))
               node == NodeAt(data, path)
               after == NodeAt(data', path)
               prior == local'[p].prior[1]
           IN /\ data' = SetAt(data, path,
                               TreeItem(node.id, after.name, node.item_type,
                                        node.children, node.parent_id, after.content,
                                        after.versions, after.metadata))
              /\ IdList(data') = IdList(data)
              /\ after.id = prior.id /\ after.item_type = prior.item_type
              /\ after.parent_id = prior.parent_id /\ after.children = prior.children
              /\ pc[p] = "update_meta" => path = local[p].path]_vars

\* the stored node was updated with a patch of another id, kind, parent_id
\* and children, next to a node added before
C20_Witness ==
    \E p \in Procs :
        /\ call[p].op = "update_item" /\ call[p].item = PatchFull
        /\ pc[p] = "done" /\ res[p].tag = "Ok"
        /\ Len(data) = 2 /\ data[1] = res[p].val[1]
        /\ data[1].name = PatchFull.name
        /\ data[1].id = Seed.id /\ data[1].item_type = Seed.item_type
        /\ data[1].parent_id = Seed.parent_id /\ data[1].children = Seed.children
        /\ data[2].id \in returned

====
